---- MODULE Spec2Model ----
(***************************************************************************)
(* Model of example_server/server.cpp: the brpc EchoService whose handler  *)
(* EchoServiceImpl::Echo dispatches a request (op, key, value) onto a      *)
(* RocksDB store and fills in a response (status, value).                  *)
(*                                                                         *)
(* Strings are modelled as small naturals, 0 being the empty string.       *)
(* brpc runs the handler on several worker threads at once: each worker    *)
(* is a process of the model, and the store call (Put, Get) is the one     *)
(* step of a handler that touches shared state.                            *)
(***************************************************************************)
EXTENDS Integers, Sequences, FiniteSets, TLC

(* ------------------------------ bounds -------------------------------- *)
\* keys are 0..MaxKey (0 is the empty string)
MaxKey == 1
\* values are 0..MaxVal (0 is the empty string)
MaxVal == 1
\* number of handler invocations that can be in flight at once
NumWorkers == 2
\* number of requests the server receives in one run of the model
MaxRequests == 3
\* request attachments are the byte strings of length 1..MaxAtt
MaxAtt == 1
\* number of requests received in a run that starts with main()
MaxServed == 2

Keys == 0..MaxKey
Values == 0..MaxVal
Workers == 1..NumWorkers

(* ------------------- constants of OPcode.h / echo.proto ---------------- *)
\* the values of the message schema: READ=0, WRITE=1, DELETE=2, MODIFY=3 and
\* OK=0, NOT_FOUND=1, ERROR=2
OP_READ == 0
OP_WRITE == 1
OP_DELETE == 2
OP_MODIFY == 3
\* an operation code that is none of the four
OP_UNKNOWN == 99
STATUS_KOK == 0
STATUS_KNOTFOUND == 1
STATUS_KERROR == 2

OpCodes == {OP_READ, OP_WRITE, OP_DELETE, OP_MODIFY, OP_UNKNOWN}
\* WRITE, DELETE and MODIFY are the operations meant to change a record
Mutators == {OP_WRITE, OP_DELETE, OP_MODIFY}

\* db[k] when the store holds no record for k
NoValue == -1
\* the empty std::string, as a key or a value
EmptyString == 0

(* ------------------------------ rocksdb ------------------------------- *)
\* rocksdb::Status as the handler tests it: ok(), IsNotFound(), other
StOk == "ok"
StNotFound == "notfound"
StIOError == "ioerror"

\* a Put that also drops the records of the other keys
PutClobbersOthers(store, key, data, fail) ==
    IF fail
    THEN [status |-> StIOError, store |-> store]
    ELSE [status |-> StOk,
          store  |-> [k \in DOMAIN store |-> IF k = key THEN data ELSE NoValue]]

\* a Put that is not atomic: it mixes the new value with the one in place
PutTornValue(store, key, data, fail) ==
    IF fail
    THEN [status |-> StIOError, store |-> store]
    ELSE [status |-> StOk,
          store  |-> [store EXCEPT ![key] =
                         IF store[key] = NoValue THEN data
                         ELSE (data + store[key] + 1) % (MaxVal + 2)]]

\* _db->Put(wopt, key, data): one atomic store update, or a failure that
\* leaves the store as it was.  fail is the engine's I/O outcome.
Put(store, key, data, fail) ==
    IF fail
    THEN [status |-> StIOError, store |-> store]
    ELSE [status |-> StOk, store |-> [store EXCEPT ![key] = data]]

\* _db->Get(ReadOptions(), key, &data)
Get(store, key, fail) ==
    IF fail THEN [status |-> StIOError, data |-> 0]
    ELSE IF store[key] = NoValue THEN [status |-> StNotFound, data |-> 0]
    ELSE [status |-> StOk, data |-> store[key]]

(* ------------------------------ messages ------------------------------ *)
\* a freshly constructed EchoResponse: no field set, getters give defaults
DefaultResponse ==
    [has_status |-> FALSE, status |-> STATUS_KOK, has_value |-> FALSE, value |-> 0]

set_status(resp, s) == [resp EXCEPT !.has_status = TRUE, !.status = s]
set_value(resp, v) == [resp EXCEPT !.has_value = TRUE, !.value = v]

\* the requests a client can send: value is carried by WRITE and MODIFY and
\* is left empty otherwise
Requests ==
    { [op |-> o, key |-> k, value |-> v] :
        o \in {OP_WRITE, OP_MODIFY}, k \in Keys, v \in Values }
    \cup
    { [op |-> o, key |-> k, value |-> 0] :
        o \in {OP_READ, OP_DELETE, OP_UNKNOWN}, k \in Keys }

NoRequest == [op |-> OP_UNKNOWN, key |-> 0, value |-> 0]

RECURSIVE Bytes(_)
Bytes(n) == IF n = 0 THEN << >> ELSE Append(Bytes(n - 1), 1)
\* the contents a request attachment (an IOBuf) can have; non-empty, so
\* that an echoed attachment differs from one that was not echoed
Attachments == { Bytes(n) : n \in 1..MaxAtt }

\* a fresh brpc::Controller of a call: the request attachment as received,
\* an empty response attachment
NewController(att) == [request_attachment |-> att, response_attachment |-> << >>]

(* ------------------------------- state -------------------------------- *)
VARIABLES
    db,                    \* _db: the store, key -> value or NoValue
    FLAGS_echo_attachment, \* the gflag, fixed for the run
    pc,                    \* where each worker's Echo call is
    request,               \* the EchoRequest of each call
    response,              \* the EchoResponse of each call
    cntl,                  \* the Controller of each call
    s,                     \* the local rocksdb::Status of each call
    doneRuns,              \* times done->Run() ran for each call
    issued,                \* requests received so far
    grp,                   \* history: per key, the mutating requests completed
                           \* since the key was last quiescent, in order
    grpBefore,             \* history: per key, db[k] when that group began
    seen,                  \* history: per READ, the group it was issued after
    mainpc,                \* where main() is
    dbState,               \* what _db points to: "unopened", "open",
                           \* "invalid" (the open failed), "closed"
    NDEBUG,                \* the build: TRUE when assert() is compiled out
    opens,                 \* calls of rocksdb::DB::Open
    closes,                \* calls of Close on an open store
    exitCode,              \* the exit status, once main() has returned
    killedBy,              \* the signal that ended the process, or "none"
    failure                \* history: the first call that failed in main()

mainVars == << mainpc, dbState, NDEBUG, opens, closes, exitCode, killedBy,
               failure >>

vars == << db, FLAGS_echo_attachment, pc, request, response, cntl, s,
           doneRuns, issued, grp, grpBefore, seen, mainVars >>

StNone == "none"
NotSeen == [known |-> FALSE, grp |-> << >>, before |-> NoValue]

InFlight(w) == pc[w] \in {"dispatch", "respond"}

\* the mutating requests on key k that are being handled
OpenMut(k) ==
    { w \in Workers :
        InFlight(w) /\ request[w].op \in Mutators /\ request[w].key = k }

\* no call is being handled; the store directory holds any content, left
\* by earlier runs
InitHandlers ==
    /\ db \in [Keys -> Values \cup {NoValue}]
    /\ FLAGS_echo_attachment \in BOOLEAN
    /\ pc = [w \in Workers |-> "idle"]
    /\ request = [w \in Workers |-> NoRequest]
    /\ response = [w \in Workers |-> DefaultResponse]
    /\ cntl = [w \in Workers |-> NewController(<< >>)]
    /\ s = [w \in Workers |-> StNone]
    /\ doneRuns = [w \in Workers |-> 0]
    /\ issued = 0
    /\ grp = [k \in Keys |-> << >>]
    /\ grpBefore = db
    /\ seen = [w \in Workers |-> NotSeen]

\* the server is up: the constructor has opened the store (lines 46-52) and
\* main() waits in RunUntilAskedToQuit (line 172)
Init ==
    /\ InitHandlers
    /\ mainpc = "serving"
    /\ dbState = "open"
    /\ NDEBUG = FALSE
    /\ opens = 1
    /\ closes = 0
    /\ exitCode = 0
    /\ killedBy = "none"
    /\ failure = "none"

(* ------------------------------ the handler --------------------------- *)
\* brpc hands a request to Echo on worker w (lines 65-79): a fresh response
\* and controller, done_guard holds the closure, opcode is read.
EchoEnter(w, req, att) ==
    /\ pc[w] \in {"idle", "done"}
    /\ issued < MaxRequests
    /\ issued' = issued + 1
    /\ pc' = [pc EXCEPT ![w] = "dispatch"]
    /\ request' = [request EXCEPT ![w] = req]
    /\ response' = [response EXCEPT ![w] = DefaultResponse]
    /\ cntl' = [cntl EXCEPT ![w] = NewController(att)]
    /\ s' = [s EXCEPT ![w] = StNone]
    /\ doneRuns' = [doneRuns EXCEPT ![w] = 0]
    /\ IF req.op \in Mutators /\ OpenMut(req.key) = {}
       THEN /\ grp' = [grp EXCEPT ![req.key] = << >>]
            /\ grpBefore' = [grpBefore EXCEPT ![req.key] = db[req.key]]
       ELSE UNCHANGED << grp, grpBefore >>
    /\ seen' = [v \in Workers |->
                 IF v = w
                 THEN IF req.op = OP_READ /\ OpenMut(req.key) = {}
                      THEN [known |-> TRUE, grp |-> grp[req.key],
                            before |-> grpBefore[req.key]]
                      ELSE NotSeen
                 ELSE IF /\ req.op \in Mutators
                         /\ InFlight(v)
                         /\ request[v].key = req.key
                      THEN NotSeen
                      ELSE seen[v]]
    /\ UNCHANGED << mainVars, db, FLAGS_echo_attachment >>

\* lines 90-94: the status of a WRITE from the Put status
WriteStatus(st) == IF st # StOk THEN STATUS_KERROR ELSE STATUS_KOK

\* lines 80-94
EchoWrite(w) ==
    /\ pc[w] = "dispatch"
    /\ request[w].op = OP_WRITE
    /\ \E fail \in BOOLEAN :
         LET r == Put(db, request[w].key, request[w].value, fail) IN
         /\ db' = r.store
         /\ s' = [s EXCEPT ![w] = r.status]
         /\ response' = [response EXCEPT
                            ![w] = set_status(@, WriteStatus(r.status))]
    /\ pc' = [pc EXCEPT ![w] = "respond"]
    /\ UNCHANGED << mainVars, FLAGS_echo_attachment, request, cntl, doneRuns, issued,
                    grp, grpBefore, seen >>

\* a READ branch that reports every failed Get as NOT_FOUND
ReadResponseErrorAsNotFound(resp, g) ==
    IF g.status # StOk THEN set_status(resp, STATUS_KNOTFOUND)
    ELSE set_value(set_status(resp, STATUS_KOK), g.data)

\* a READ branch that forgets set_value
ReadResponseNoValue(resp, g) ==
    IF g.status = StNotFound THEN set_status(resp, STATUS_KNOTFOUND)
    ELSE IF g.status # StOk THEN set_status(resp, STATUS_KERROR)
    ELSE set_status(resp, STATUS_KOK)

\* lines 102-111: the response of a READ from the Get status and data
ReadResponse(resp, g) ==
    IF g.status = StNotFound THEN set_status(resp, STATUS_KNOTFOUND)
    ELSE IF g.status # StOk THEN set_status(resp, STATUS_KERROR)
    ELSE set_value(set_status(resp, STATUS_KOK), g.data)

\* lines 95-111
EchoRead(w) ==
    /\ pc[w] = "dispatch"
    /\ request[w].op = OP_READ
    /\ \E fail \in BOOLEAN :
         LET g == Get(db, request[w].key, fail) IN
         /\ s' = [s EXCEPT ![w] = g.status]
         /\ response' = [response EXCEPT ![w] = ReadResponse(@, g)]
    /\ pc' = [pc EXCEPT ![w] = "respond"]
    /\ UNCHANGED << mainVars, db, FLAGS_echo_attachment, request, cntl, doneRuns,
                    issued, grp, grpBefore, seen >>

\* lines 112-113: the DELETE branch is an empty statement
EchoDelete(w) ==
    /\ pc[w] = "dispatch"
    /\ request[w].op = OP_DELETE
    /\ pc' = [pc EXCEPT ![w] = "respond"]
    /\ UNCHANGED << mainVars, db, FLAGS_echo_attachment, request, response, cntl, s,
                    doneRuns, issued, grp, grpBefore, seen >>

\* lines 114-115: the MODIFY branch is an empty statement
EchoModify(w) ==
    /\ pc[w] = "dispatch"
    /\ request[w].op = OP_MODIFY
    /\ pc' = [pc EXCEPT ![w] = "respond"]
    /\ UNCHANGED << mainVars, db, FLAGS_echo_attachment, request, response, cntl, s,
                    doneRuns, issued, grp, grpBefore, seen >>

\* lines 116-118: any other opcode is logged, nothing else
EchoUnsupported(w) ==
    /\ pc[w] = "dispatch"
    /\ request[w].op \notin {OP_WRITE, OP_READ, OP_DELETE, OP_MODIFY}
    /\ pc' = [pc EXCEPT ![w] = "respond"]
    /\ UNCHANGED << mainVars, db, FLAGS_echo_attachment, request, response, cntl, s,
                    doneRuns, issued, grp, grpBefore, seen >>

\* an echo step that does not test the flag
EchoAttachmentAlways(c, flag) ==
    [c EXCEPT !.response_attachment = @ \o c.request_attachment]

\* lines 122-126: the response attachment after the echo step
EchoAttachment(c, flag) ==
    IF flag
    THEN [c EXCEPT !.response_attachment = @ \o c.request_attachment]
    ELSE c

\* a guard that was released: its destructor runs nothing
ClosureGuardRelease(runs) == runs

\* line 71 and the end of the function body: ~ClosureGuard runs done once
ClosureGuardDtor(runs) == runs + 1

\* lines 119-127: the attachment echo, then the return, where done_guard
\* is destroyed and the response is sent
EchoReturn(w) ==
    /\ pc[w] = "respond"
    /\ cntl' = [cntl EXCEPT ![w] = EchoAttachment(@, FLAGS_echo_attachment)]
    /\ doneRuns' = [doneRuns EXCEPT ![w] = ClosureGuardDtor(@)]
    /\ pc' = [pc EXCEPT ![w] = "done"]
    /\ IF request[w].op \in Mutators
       THEN grp' = [grp EXCEPT ![request[w].key] =
                       Append(@, [op     |-> request[w].op,
                                  value  |-> request[w].value,
                                  status |-> response[w].status,
                                  fail   |-> s[w] = StIOError])]
       ELSE UNCHANGED grp
    /\ UNCHANGED << mainVars, db, FLAGS_echo_attachment, request, response, s, issued,
                    grpBefore, seen >>

Next ==
    \/ \E w \in Workers, req \in Requests, att \in Attachments :
          EchoEnter(w, req, att)
    \/ \E w \in Workers : EchoWrite(w)
    \/ \E w \in Workers : EchoRead(w)
    \/ \E w \in Workers : EchoDelete(w)
    \/ \E w \in Workers : EchoModify(w)
    \/ \E w \in Workers : EchoUnsupported(w)
    \/ \E w \in Workers : EchoReturn(w)

Spec == Init /\ [][Next]_vars

(* -------------------------------- main() ------------------------------ *)
\* the process as started: nothing is open, the build and the flag are any
InitMain ==
    /\ InitHandlers
    /\ mainpc = "start"
    /\ dbState = "unopened"
    /\ NDEBUG \in BOOLEAN
    /\ opens = 0
    /\ closes = 0
    /\ exitCode = 0
    /\ killedBy = "none"
    /\ failure = "none"

HandlerVars == << db, FLAGS_echo_attachment, pc, request, response, cntl, s,
                 doneRuns, issued, grp, grpBefore, seen >>

\* the exit status of a process whose main() returns ret
ExitStatus(ret) == ret % 256

\* assert(s.ok()) (lines 51, 58): TRUE when execution goes on, which it
\* does on a failure too when the build defines NDEBUG
AssertPasses(ok, ndebug) == ok \/ ndebug

\* the process is ended by signal sig
Killed(sig) ==
    /\ mainpc' = "exited"
    /\ killedBy' = sig
    /\ UNCHANGED exitCode

\* return ret from main()
Return(ret) ==
    /\ mainpc' = "exited"
    /\ exitCode' = ExitStatus(ret)
    /\ UNCHANGED killedBy

\* lines 136-143 and 46-52: flags parsed, the Server constructed, the
\* service constructed, which opens the store and asserts that it did
MainConstruct ==
    /\ mainpc = "start"
    /\ opens' = opens + 1
    /\ \E ok \in BOOLEAN :
         /\ dbState' = IF ok THEN "open" ELSE "invalid"
         /\ failure' = IF ok THEN failure ELSE "open"
         /\ IF AssertPasses(ok, NDEBUG)
            THEN mainpc' = "add_service" /\ UNCHANGED << exitCode, killedBy >>
            ELSE Killed("SIGABRT")
    /\ UNCHANGED << HandlerVars, NDEBUG, closes >>

\* lines 148-152
MainAddService ==
    /\ mainpc = "add_service"
    /\ \E ok \in BOOLEAN :
         IF ok
         THEN /\ mainpc' = "endpoint"
              /\ UNCHANGED << exitCode, killedBy, failure >>
         ELSE /\ Return(-1)
              /\ failure' = IF failure = "none" THEN "add_service" ELSE failure
    /\ UNCHANGED << HandlerVars, dbState, NDEBUG, opens, closes >>

\* lines 154-162: valid is FALSE when FLAGS_listen_addr is set and
\* str2endpoint rejects it
MainEndPoint ==
    /\ mainpc = "endpoint"
    /\ \E valid \in BOOLEAN :
         IF valid
         THEN /\ mainpc' = "start_server"
              /\ UNCHANGED << exitCode, killedBy, failure >>
         ELSE /\ Return(-1)
              /\ failure' = IF failure = "none" THEN "address" ELSE failure
    /\ UNCHANGED << HandlerVars, dbState, NDEBUG, opens, closes >>

\* lines 164-169: server.Start binds and listens; from its return on, the
\* server takes requests
MainStart ==
    /\ mainpc = "start_server"
    /\ \E ok \in BOOLEAN :
         IF ok
         THEN /\ mainpc' = "serving"
              /\ UNCHANGED << exitCode, killedBy, failure >>
         ELSE /\ Return(-1)
              /\ failure' = IF failure = "none" THEN "start" ELSE failure
    /\ UNCHANGED << HandlerVars, dbState, NDEBUG, opens, closes >>

\* line 172, RunUntilAskedToQuit: Ctrl-C arrives and the server is stopped;
\* it takes no new request
AskedToQuit ==
    /\ mainpc = "serving"
    /\ mainpc' = "stopping"
    /\ UNCHANGED << HandlerVars, dbState, NDEBUG, opens, closes, exitCode,
                    killedBy, failure >>

\* a Join that does not wait for the calls in progress
JoinedNoWait == TRUE

\* Server::Join returns when no call is being handled
Joined == \A w \in Workers : ~InFlight(w)

\* line 172, RunUntilAskedToQuit: the server is joined and the call returns
ServerJoin ==
    /\ mainpc = "stopping"
    /\ Joined
    /\ mainpc' = "destroy"
    /\ UNCHANGED << HandlerVars, dbState, NDEBUG, opens, closes, exitCode,
                    killedBy, failure >>

\* lines 55-63 and 173: Close the store and assert that it did, then try to
\* remove the directory.  With an invalid _db the call is undefined: the
\* process crashes, or goes on as if nothing was closed.
Destroy_DB ==
    /\ mainpc = "destroy"
    /\ \/ /\ dbState = "open"
          /\ closes' = closes + 1
          /\ dbState' = "closed"
          /\ \E ok \in BOOLEAN :
               /\ failure' = IF ok \/ failure # "none" THEN failure ELSE "close"
               /\ IF AssertPasses(ok, NDEBUG)
                  THEN mainpc' = "return" /\ UNCHANGED << exitCode, killedBy >>
                  ELSE Killed("SIGABRT")
       \/ /\ dbState # "open"
          /\ \/ Killed("SIGSEGV")
             \/ mainpc' = "return" /\ UNCHANGED << exitCode, killedBy >>
          /\ UNCHANGED << dbState, closes, failure >>
    /\ UNCHANGED << HandlerVars, NDEBUG, opens >>

\* line 174
MainReturn ==
    /\ mainpc = "return"
    /\ Return(0)
    /\ UNCHANGED << HandlerVars, dbState, NDEBUG, opens, closes, failure >>

\* the process has not ended: its worker threads run
Alive == mainpc # "exited"

\* a request arrives while the server takes requests
Serve(w, req, att) ==
    /\ mainpc = "serving"
    /\ issued < MaxServed
    /\ EchoEnter(w, req, att)

\* lines 84 and 101 when _db is not an open store: the call through the
\* pointer is undefined.  The process crashes, or the call returns some
\* status (and data) without touching the store, and the branch goes on.
EchoStoreUndefined(w) ==
    /\ Alive
    /\ dbState # "open"
    /\ pc[w] = "dispatch"
    /\ request[w].op \in {OP_WRITE, OP_READ}
    /\ \/ /\ Killed("SIGSEGV")
          /\ UNCHANGED << pc, s, response >>
       \/ /\ \E st \in {StOk, StNotFound, StIOError}, data \in Values :
               /\ s' = [s EXCEPT ![w] = st]
               /\ response' = [response EXCEPT ![w] =
                     IF request[w].op = OP_WRITE
                     THEN set_status(@, WriteStatus(st))
                     ELSE ReadResponse(@, [status |-> st, data |-> data])]
          /\ pc' = [pc EXCEPT ![w] = "respond"]
          /\ UNCHANGED << mainpc, exitCode, killedBy >>
    /\ UNCHANGED << db, FLAGS_echo_attachment, request, cntl, doneRuns,
                    issued, grp, grpBefore, seen, dbState, NDEBUG, opens,
                    closes, failure >>

NextMain ==
    \/ MainConstruct
    \/ MainAddService
    \/ MainEndPoint
    \/ MainStart
    \/ AskedToQuit
    \/ ServerJoin
    \/ Destroy_DB
    \/ MainReturn
    \/ \E w \in Workers, req \in Requests, att \in Attachments :
          Serve(w, req, att)
    \/ \E w \in Workers : Alive /\ dbState = "open" /\ EchoWrite(w)
    \/ \E w \in Workers : Alive /\ dbState = "open" /\ EchoRead(w)
    \/ \E w \in Workers : EchoStoreUndefined(w)
    \/ \E w \in Workers : Alive /\ EchoDelete(w)
    \/ \E w \in Workers : Alive /\ EchoModify(w)
    \/ \E w \in Workers : Alive /\ EchoUnsupported(w)
    \/ \E w \in Workers : Alive /\ EchoReturn(w)

SpecMain == InitMain /\ [][NextMain]_vars

(* ------------------------------ properties ---------------------------- *)
Done(w) == pc[w] = "done"

\* a READ that has returned and was issued when key k was quiescent
QuietRead(w) == Done(w) /\ request[w].op = OP_READ /\ seen[w].known

\* the READ was issued after exactly one mutating request of kind op ran
\* alone on its key
AfterSingle(w, op) ==
    /\ QuietRead(w)
    /\ Len(seen[w].grp) = 1
    /\ seen[w].grp[1].op = op

\* the READ was issued after two or more WRITEs ran in parallel on its key
AfterParallelWrites(w) ==
    /\ QuietRead(w)
    /\ Len(seen[w].grp) >= 2
    /\ \A i \in 1..Len(seen[w].grp) : seen[w].grp[i].op = OP_WRITE

ReturnsValue(w, v) ==
    /\ response[w].status = STATUS_KOK
    /\ response[w].has_value
    /\ response[w].value = v

ReturnsError(w) ==
    /\ response[w].status = STATUS_KERROR
    /\ ~response[w].has_value

\* key k is quiescent and the last mutating request on it ran alone and
\* was of kind op
LastSingle(k, op) ==
    /\ OpenMut(k) = {}
    /\ Len(grp[k]) = 1
    /\ grp[k][1].op = op

\* C1 as stated: a READ(k) that follows a completed WRITE(k, v), with no
\* other WRITE, DELETE or MODIFY on k in between, returns OK with value v.
C1_WriteThenReadReturnsValue ==
    \A w \in Workers :
        AfterSingle(w, OP_WRITE) => ReturnsValue(w, seen[w].grp[1].value)

\* C1 amended: a READ(k) that follows a WRITE(k, v) that returned OK, with
\* no other WRITE, DELETE or MODIFY on k in between, returns OK with value
\* v, unless its own Get fails, and then it returns ERROR with no value.
C1_OkWriteThenRead ==
    \A w \in Workers :
        (AfterSingle(w, OP_WRITE) /\ seen[w].grp[1].status = STATUS_KOK)
        => IF s[w] = StIOError
           THEN ReturnsError(w)
           ELSE ReturnsValue(w, seen[w].grp[1].value)

\* a READ returned the value of the WRITE before it, which changed the key
C1_Witness ==
    \E w \in Workers :
        /\ AfterSingle(w, OP_WRITE)
        /\ seen[w].grp[1].status = STATUS_KOK
        /\ seen[w].before # seen[w].grp[1].value
        /\ ReturnsValue(w, seen[w].grp[1].value)

\* C2: a READ(k) whose Get does not fail returns NOT_FOUND when k was never
\* written and when the last completed mutating request on k was a DELETE.
C2_ReadAbsentOrDeleted ==
    \A w \in Workers :
        ( /\ QuietRead(w)
          /\ s[w] # StIOError
          /\ \/ seen[w].grp = << >> /\ seen[w].before = NoValue
             \/ AfterSingle(w, OP_DELETE) )
        => response[w].status = STATUS_KNOTFOUND

\* C3: a DELETE(k) returns OK and leaves k absent from the store, whether
\* or not k was present, so that two consecutive DELETEs both do.
C3_DeleteIdempotent ==
    \A k \in Keys :
        LastSingle(k, OP_DELETE)
        => grp[k][1].status = STATUS_KOK /\ db[k] = NoValue

\* C4: a MODIFY(k, v) on an absent key returns NOT_FOUND and does not
\* create k: a following READ(k) whose Get does not fail returns NOT_FOUND.
C4_ModifyAbsent ==
    /\ \A k \in Keys :
          (LastSingle(k, OP_MODIFY) /\ grpBefore[k] = NoValue)
          => grp[k][1].status = STATUS_KNOTFOUND /\ db[k] = NoValue
    /\ \A w \in Workers :
          ( /\ AfterSingle(w, OP_MODIFY)
            /\ seen[w].before = NoValue
            /\ s[w] # StIOError )
          => response[w].status = STATUS_KNOTFOUND

\* C5: a MODIFY(k, v) on a present key returns OK and stores v, as a
\* WRITE(k, v) would: a following READ(k) whose Get does not fail returns
\* OK with value v.
C5_ModifyPresent ==
    /\ \A k \in Keys :
          (LastSingle(k, OP_MODIFY) /\ grpBefore[k] # NoValue)
          => grp[k][1].status = STATUS_KOK /\ db[k] = grp[k][1].value
    /\ \A w \in Workers :
          ( /\ AfterSingle(w, OP_MODIFY)
            /\ seen[w].before # NoValue
            /\ s[w] # StIOError )
          => ReturnsValue(w, seen[w].grp[1].value)

\* C6: the step that handles a request whose opcode is none of READ,
\* WRITE, DELETE, MODIFY sets status ERROR, leaves the store as it was and
\* goes on to respond.
C6_UnknownOpcode ==
    [][ \A w \in Workers :
          ( /\ pc[w] = "dispatch"
            /\ request[w].op \notin {OP_READ, OP_WRITE, OP_DELETE, OP_MODIFY}
            /\ pc'[w] # pc[w] )
          => /\ pc'[w] = "respond"
             /\ db' = db
             /\ response'[w].status = STATUS_KERROR ]_vars

\* C7 as stated: a READ(k) issued after N parallel WRITE(k, v_i) have all
\* completed returns OK with one of the v_i.
C7_ParallelWritesThenRead ==
    \A w \in Workers :
        AfterParallelWrites(w)
        => \E i \in 1..Len(seen[w].grp) :
              ReturnsValue(w, seen[w].grp[i].value)

\* C7 amended: a READ(k) issued after N parallel WRITE(k, v_i) have all
\* returned OK returns OK with one of the v_i, unless its own Get fails,
\* and then it returns ERROR with no value.
C7_OkParallelWritesThenRead ==
    \A w \in Workers :
        ( /\ AfterParallelWrites(w)
          /\ \A i \in 1..Len(seen[w].grp) :
                seen[w].grp[i].status = STATUS_KOK )
        => IF s[w] = StIOError
           THEN ReturnsError(w)
           ELSE \E i \in 1..Len(seen[w].grp) :
                   ReturnsValue(w, seen[w].grp[i].value)

\* a READ returned one of two different values written in parallel
C7_Witness ==
    \E w \in Workers :
        /\ AfterParallelWrites(w)
        /\ Len(seen[w].grp) = 2
        /\ seen[w].grp[1].status = STATUS_KOK
        /\ seen[w].grp[2].status = STATUS_KOK
        /\ seen[w].grp[1].value # seen[w].grp[2].value
        /\ ReturnsValue(w, seen[w].grp[2].value)

\* the contract of section 4.2 for one mutating request r applied to a key
\* whose content is val: the content after it and the status it returns
ContractStep(val, r) ==
    IF r.op = OP_WRITE THEN [val |-> r.value, status |-> STATUS_KOK]
    ELSE IF r.op = OP_DELETE THEN [val |-> NoValue, status |-> STATUS_KOK]
    ELSE IF val = NoValue THEN [val |-> val, status |-> STATUS_KNOTFOUND]
    ELSE [val |-> r.value, status |-> STATUS_KOK]

\* the requests recs run one after the other in the order f from content
\* val, from position i on, return the statuses recorded in recs and end
\* with content final
RECURSIVE SerialMatches(_, _, _, _, _)
SerialMatches(val, recs, f, i, final) ==
    IF i > Len(recs) THEN val = final
    ELSE LET c == ContractStep(val, recs[f[i]]) IN
         /\ c.status = recs[f[i]].status
         /\ SerialMatches(c.val, recs, f, i + 1, final)

Orders(n) ==
    { f \in [1..n -> 1..n] : \A i, j \in 1..n : f[i] = f[j] => i = j }

\* C8: when a MODIFY ran concurrently with other WRITE, DELETE or MODIFY
\* requests on its key and no store call failed, the content of the key
\* and the statuses returned are those of some serial order of the requests.
C8_ModifySerializable ==
    \A k \in Keys :
        ( /\ OpenMut(k) = {}
          /\ Len(grp[k]) >= 2
          /\ \E i \in 1..Len(grp[k]) : grp[k][i].op = OP_MODIFY
          /\ \A i \in 1..Len(grp[k]) : ~grp[k][i].fail )
        => \E f \in Orders(Len(grp[k])) :
              SerialMatches(grpBefore[k], grp[k], f, 1, db[k])

\* C9: the completion callback of a request has run exactly once when the
\* handler has returned, and not at all before.
C9_DoneRunsOnce ==
    \A w \in Workers : doneRuns[w] = IF Done(w) THEN 1 ELSE 0

\* a READ whose Get failed has returned, with the attachment echoed, and its
\* callback has run once
C9_Witness ==
    \E w \in Workers :
        /\ Done(w)
        /\ request[w].op = OP_READ
        /\ s[w] = StIOError
        /\ FLAGS_echo_attachment
        /\ cntl[w].response_attachment # << >>
        /\ doneRuns[w] = 1

\* C10: once the dispatch branch of a request has run, the status of its
\* response has been set, and to a non-OK status when the store call
\* returned a non-OK status.
C10_StatusAlwaysSet ==
    \A w \in Workers :
        pc[w] \in {"respond", "done"}
        => /\ response[w].has_status
           /\ s[w] \in {StNotFound, StIOError}
              => response[w].status # STATUS_KOK

\* C11: a READ returns NOT_FOUND when the Get reports the key as not found,
\* ERROR on any other Get failure, and OK with the value the store held on
\* success; a response carries a value only for a READ that returned OK.
C11_ReadStatusAndValue ==
    /\ [] \A w \in Workers :
            pc[w] \in {"respond", "done"}
            => /\ request[w].op = OP_READ
                  => /\ s[w] = StNotFound
                        => response[w].status = STATUS_KNOTFOUND
                     /\ s[w] = StIOError
                        => response[w].status = STATUS_KERROR
                     /\ s[w] = StOk
                        => response[w].status = STATUS_KOK
                     /\ response[w].has_status
               /\ response[w].has_value
                  <=> ( /\ request[w].op = OP_READ
                        /\ response[w].status = STATUS_KOK )
    /\ [][ \A w \in Workers :
             ( /\ pc[w] = "dispatch"
               /\ request[w].op = OP_READ
               /\ pc'[w] = "respond"
               /\ s'[w] = StOk )
             => response'[w].value = db[request[w].key] ]_vars

\* one READ has returned ERROR for a failed Get and another has returned
\* OK with a value
C11_Witness ==
    \E w, v \in Workers :
        /\ Done(w) /\ request[w].op = OP_READ /\ s[w] = StIOError
        /\ ReturnsError(w)
        /\ Done(v) /\ request[v].op = OP_READ /\ s[v] = StOk
        /\ ReturnsValue(v, db[request[v].key])

\* C12: a request with an empty key is answered ERROR and no Get or Put is
\* issued for it.
C12_EmptyKeyRejected ==
    \A w \in Workers :
        (pc[w] \in {"respond", "done"} /\ request[w].key = EmptyString)
        => response[w].status = STATUS_KERROR /\ s[w] = StNone

\* C16: a returned call's response attachment is its request attachment
\* when the echo flag is set and is empty when it is not, for every opcode
\* and status; the echo step changes neither the response message nor the
\* store.
C16_AttachmentEcho ==
    /\ [] \A w \in Workers :
            /\ Done(w)
               => cntl[w].response_attachment =
                     IF FLAGS_echo_attachment
                     THEN cntl[w].request_attachment
                     ELSE << >>
            /\ InFlight(w) => cntl[w].response_attachment = << >>
    /\ [][ \A w \in Workers :
             (pc[w] = "respond" /\ pc'[w] = "done")
             => response'[w] = response[w] /\ db' = db ]_vars

\* a request with an unknown opcode got its attachment echoed
C16_Witness ==
    \E w \in Workers :
        /\ Done(w)
        /\ request[w].op = OP_UNKNOWN
        /\ FLAGS_echo_attachment
        /\ cntl[w].request_attachment # << >>
        /\ cntl[w].response_attachment = cntl[w].request_attachment

\* C17: the record of a key k changes only in the store step of a WRITE,
\* DELETE or MODIFY on k: a READ changes nothing, and a mutating request
\* leaves every other key as it was, under any interleaving.
C17_OnlyOwnKey ==
    [][ \A k \in Keys :
          db'[k] # db[k]
          => \E w \in Workers :
                /\ pc[w] = "dispatch"
                /\ pc'[w] = "respond"
                /\ request[w].op \in Mutators
                /\ request[w].key = k ]_vars

\* a WRITE changed its key while another key held a record, and still does
C17_Witness ==
    \E k, j \in Keys :
        /\ j # k
        /\ LastSingle(k, OP_WRITE)
        /\ db[k] # grpBefore[k]
        /\ grp[j] = << >>
        /\ grpBefore[j] # NoValue
        /\ db[j] = grpBefore[j]

\* C13: while the store is being closed and after it was closed no call is
\* being handled, and once shutdown has begun no new request is dispatched.
C13_CloseAfterDrain ==
    /\ [] ( (mainpc \in {"destroy", "return"} \/ closes > 0)
            => \A w \in Workers : ~InFlight(w) )
    /\ [][ \A w \in Workers :
             (pc[w] # "dispatch" /\ pc'[w] = "dispatch")
             => mainpc = "serving" ]_vars

\* the store was closed after a WRITE and a READ had been served
C13_Witness ==
    /\ dbState = "closed"
    /\ closes = 1
    /\ \E w, v \in Workers :
          /\ Done(w) /\ request[w].op = OP_WRITE /\ s[w] = StOk
          /\ Done(v) /\ request[v].op = OP_READ

\* C14: the store is opened exactly once, before the server is started,
\* and when the open succeeded it has been closed exactly once by the time
\* the process has exited, whichever way main() returns.
C14_OpenOnceCloseOnce ==
    /\ opens <= 1
    /\ closes <= 1
    /\ mainpc # "start" => opens = 1
    /\ (mainpc = "exited" /\ killedBy = "none" /\ dbState # "invalid")
       => closes = 1

\* C15: the process exits with code 0 only when nothing failed, exits with
\* a non-zero code when the listen address is invalid, when the server
\* fails to start and when the store fails to open, and never serves after
\* one of these failures.
C15_ExitCodes ==
    /\ (mainpc = "exited" /\ killedBy = "none" /\ exitCode = 0)
       => failure \notin {"open", "add_service", "address", "start"}
    /\ failure \in {"open", "address", "start"}
       => /\ mainpc \notin {"serving", "stopping"}
          /\ \A w \in Workers : pc[w] = "idle"
          /\ mainpc = "exited" => (killedBy # "none" \/ exitCode # 0)

\* C18: the server takes requests only with the store open, and a call is
\* handled only with _db an open store.
C18_DispatchOnlyWhenOpen ==
    /\ mainpc = "serving" => dbState = "open"
    /\ \A w \in Workers : InFlight(w) => dbState = "open"

====
